---- MODULE Spec2Model ----
(***************************************************************************)
(* A model of notify.js: the Notify facade over the browser's desktop      *)
(* notification backends (window.Notification, window.webkitNotifications, *)
(* navigator.mozNotification / window.mozNotification, window.external).   *)
(*                                                                         *)
(* The facade's own state is `supported` and `cached`.  The host           *)
(* environment (which backends exist, the permission the user gave, the    *)
(* notification objects the backends handed out) is state too: the facade  *)
(* reads it on every call and never controls it.                           *)
(*                                                                         *)
(* JavaScript is single threaded: every method runs to completion, so each *)
(* method is one action.  An exception that leaves a method is the return  *)
(* value "throw"; the state the method had reached when it threw is kept.  *)
(***************************************************************************)
EXTENDS Integers, Sequences, FiniteSets, TLC

\* The number of notification objects the backends hand out in one run of
\* SpecCache, and in one run of Spec.
MaxHandles == 2
MaxPlain == 1

PERMISSION_GRANTED == "granted"
PERMISSION_DENIED == "denied"
PERMISSION_DEFAULT == "default"

Permissions == {PERMISSION_GRANTED, PERMISSION_DENIED, PERMISSION_DEFAULT}

(***************************************************************************)
(* The host environment.                                                   *)
(*   Notification        "absent": no window.Notification;                 *)
(*                       "bare":   an object with neither permissionLevel, *)
(*                                 permission nor requestPermission;       *)
(*                       "level":  permissionLevel() and requestPermission *)
(*                                 (Safari 6);                             *)
(*                       "prop":   permission and requestPermission.       *)
(*   webkitNotifications "absent", "noCheck" (no checkPermission member),  *)
(*                       "full".                                           *)
(*   navMozNotification  navigator.mozNotification exists.                 *)
(*   winMozNotification  window.mozNotification exists.                    *)
(*   external            "absent": no window.external;                     *)
(*                       "plain":  window.external without msIsSiteMode    *)
(*                                 (calling it is a TypeError);            *)
(*                       "undef":  msIsSiteMode() returns undefined;       *)
(*                       "inactive", "active": msIsSiteMode() returns      *)
(*                                 false, true.                            *)
(*   permission          what the user decided for this page; the value    *)
(*                       Notification.permission / permissionLevel() give. *)
(***************************************************************************)
NotificationShapes == {"absent", "bare", "level", "prop"}
WebkitShapes == {"absent", "noCheck", "full"}
ExternalShapes == {"absent", "plain", "undef", "inactive", "active"}

Envs ==
    [Notification : NotificationShapes,
     webkitNotifications : WebkitShapes,
     navMozNotification : BOOLEAN,
     winMozNotification : BOOLEAN,
     external : ExternalShapes,
     permission : Permissions]

(***************************************************************************)
(* A notification object (handle) as a backend hands it out.               *)
(*   kind    the dismissal member it has: "close", "cancel" or "none"      *)
(*   throws  calling that member throws                                    *)
(*   onclick, onclose, onshow   the callback slots: "null" or what was     *)
(*           stored there                                                  *)
(*   state   "absent" (not created yet), "open", "dismissed" (close or     *)
(*           cancel was called, the close event is still to come),         *)
(*           "closed"                                                      *)
(***************************************************************************)
HandleIds == 1..MaxHandles

NoHandle ==
    [kind |-> "none", throws |-> FALSE, onclick |-> "null", onclose |-> "null",
     onshow |-> "null", state |-> "absent"]

\* What the caller may pass as a property of `callbacks`.
CallbackValues == {"undefined", "string", "function"}

\* What the caller passes as `callbacks`; undefined, null and {} all read as
\* the record of three undefined properties through Object(callbacks).
Callbacks == [onclick : CallbackValues, onclose : CallbackValues, onshow : CallbackValues]

\* What a backend factory returns: an object, null, or undefined.
Mades ==
    [type : {"object"}, kind : {"close", "cancel", "none"}, throws : BOOLEAN]
    \cup [type : {"null", "undefined"}, kind : {"none"}, throws : {FALSE}]

VARIABLES
    env,        \* the host environment
    supported,  \* this.supported: "null", "true" or "false"
    cached,     \* this.cached: the sequence of handle ids
    handles,    \* the notification objects, by id
    pending,    \* the callable a backend holds for a permission request
    last        \* the last call or event, and what was seen of it

vars == <<env, supported, cached, handles, pending, last>>

(***************************************************************************)
(* What was seen of a call or event.                                       *)
(*   op        the method or event                                         *)
(*   ret       what it returned ("throw": it threw), or the callback slot  *)
(*             the event ran                                               *)
(*   via       the backend it went through, or the cause of the event      *)
(*   clear     send's isRemoveAll argument                                 *)
(*   prior     the length of the cache when send was entered               *)
(*   atCreate  the length of the cache when send reached the creation at   *)
(*             line 160; -1 when it did not                                *)
(*   handle    the notification object created or concerned; 0 when none   *)
(*   atDismiss the values the onclose slots held at the moments removeAll  *)
(*             called close() or cancel()                                  *)
(***************************************************************************)
Seen(op, ret, via) ==
    [op |-> op, ret |-> ret, via |-> via, clear |-> FALSE, prior |-> 0,
     atCreate |-> -1, handle |-> 0, atDismiss |-> {}]

----------------------------------------------------------------------------
(* available *)

\* The expression of lines 44-48, before !! is applied: "true", "false", or
\* "throw" when window.external.msIsSiteMode is called and does not exist.
Probe(e) ==
    IF e.Notification # "absent" THEN "true"
    ELSE IF e.webkitNotifications # "absent" THEN "true"
    ELSE IF e.navMozNotification THEN "true"
    ELSE IF e.external = "absent" THEN "false"
    ELSE IF e.external = "plain" THEN "throw"
    ELSE IF e.external = "undef" THEN "false"
    ELSE "true"

\* available() without the memo: it probes on every call.
availableReprobes(sup, e) == IF Probe(e) = "true" THEN "true" ELSE "false"

\* The value of this.supported after available().
available(sup, e) ==
    IF sup = "null"
    THEN (IF Probe(e) = "true" THEN "true" ELSE "false")
    ELSE sup

----------------------------------------------------------------------------
(* permissionStatus *)

\* permissionStatus() without the available() guard of lines 101-104.
permissionStatusUnguarded(sup, e) ==
    IF e.Notification \in {"level", "prop"} THEN e.permission
    ELSE IF e.navMozNotification THEN PERMISSION_GRANTED
    ELSE IF e.external \in {"absent", "undef"} THEN ""
    ELSE IF e.external = "plain" THEN "throw"
    ELSE IF e.external = "active" THEN PERMISSION_GRANTED
    ELSE PERMISSION_DEFAULT

\* "false", a permission, "" or "throw".
permissionStatus(sup, e) ==
    IF available(sup, e) # "true" THEN "false"
    ELSE IF e.Notification = "level" THEN e.permission
    ELSE IF e.Notification = "prop" THEN e.permission
    ELSE IF e.navMozNotification THEN PERMISSION_GRANTED
    ELSE IF e.external = "absent" THEN ""
    ELSE IF e.external = "plain" THEN "throw"
    ELSE IF e.external = "undef" THEN ""
    ELSE IF e.external = "active" THEN PERMISSION_GRANTED
    ELSE PERMISSION_DEFAULT

----------------------------------------------------------------------------
(* requestPermission *)

\* The backend requestPermission hands the callable to: "none", "webkit" or
\* "standard".
requestBackend(sup, e) ==
    IF available(sup, e) # "true" THEN "none"
    ELSE IF e.webkitNotifications = "full" THEN "webkit"
    ELSE IF e.Notification \in {"level", "prop"} THEN "standard"
    ELSE "none"

\* The callable of line 72.
callable(callback) == IF callback = "function" THEN "callback" ELSE "noop"

----------------------------------------------------------------------------
(* removeAll *)

\* close() or cancel() on a notification that does not throw.
dismissed(h) == [h EXCEPT !.state = IF h.state = "open" THEN "dismissed" ELSE h.state]

\* The forEach callback with line 206 left out: onclose stays attached.
dismissOneKeepsOnclose(h, e) ==
    IF h.kind \in {"close", "cancel"}
    THEN [handle |-> IF h.throws THEN h ELSE dismissed(h), threw |-> h.throws,
          atDismiss |-> {h.onclose}]
    ELSE [handle |-> h, threw |-> e.external = "plain", atDismiss |-> {}]

\* The body of the forEach callback on one handle: lines 206-218.  The
\* third branch calls window.external.msIsSiteMode(), a TypeError when
\* window.external has no such member; the overlay it clears is not state.
dismissOne(h, e) ==
    LET h1 == [h EXCEPT !.onclose = "null"]
    IN  IF h1.kind \in {"close", "cancel"}
        THEN [handle |-> IF h1.throws THEN h1 ELSE dismissed(h1), threw |-> h1.throws,
              atDismiss |-> {h1.onclose}]
        ELSE IF e.external = "absent" THEN [handle |-> h1, threw |-> FALSE, atDismiss |-> {}]
        ELSE IF e.external = "plain" THEN [handle |-> h1, threw |-> TRUE, atDismiss |-> {}]
        ELSE [handle |-> h1, threw |-> FALSE, atDismiss |-> {}]

\* The forEach of lines 204-219 from index i on: the handles after it,
\* whether a callback threw (which ends the loop there), and the onclose
\* slots as they were at the dismissals.
RECURSIVE forEachCached(_, _, _, _)
forEachCached(c, i, hs, e) ==
    IF i > Len(c) THEN [handles |-> hs, threw |-> FALSE, atDismiss |-> {}]
    ELSE LET r == dismissOne(hs[c[i]], e)
             hs1 == [hs EXCEPT ![c[i]] = r.handle]
             rest == forEachCached(c, i + 1, hs1, e)
         IN  IF r.threw THEN [handles |-> hs1, threw |-> TRUE, atDismiss |-> r.atDismiss]
             ELSE [rest EXCEPT !.atDismiss = r.atDismiss \cup rest.atDismiss]

\* removeAll() with line 221 left out: the cache is never reset.
removeAllKeepsCache(c, hs, e) ==
    LET r == forEachCached(c, 1, hs, e)
    IN  [cached |-> c, handles |-> r.handles, threw |-> r.threw, atDismiss |-> r.atDismiss]

\* Lines 202-222.  When a callback threw, line 221 is not reached.
removeAll(c, hs, e) ==
    LET r == forEachCached(c, 1, hs, e)
    IN  [cached |-> IF r.threw THEN c ELSE <<>>,
         handles |-> r.handles,
         threw |-> r.threw,
         atDismiss |-> r.atDismiss]

----------------------------------------------------------------------------
(* send *)

\* The backend send creates through: lines 162-185.
createBackend(e) ==
    IF e.external \in {"undef", "inactive", "active"} THEN "external"
    ELSE IF e.webkitNotifications # "absent" THEN "webkit"
    ELSE IF e.winMozNotification THEN "moz"
    ELSE IF e.Notification # "absent" THEN "standard"
    ELSE "none"

\* The value of `notification` at line 187.
\* A factory returns what it likes (made); `new window.Notification` returns
\* a Notification, which has close(); the overlay leaves it undefined.
created(e, made) ==
    IF createBackend(e) \in {"webkit", "moz"} THEN made
    ELSE IF createBackend(e) = "standard"
    THEN [type |-> "object", kind |-> "close", throws |-> made.throws]
    ELSE [type |-> "undefined", kind |-> "none", throws |-> FALSE]

\* One callback slot: lines 189-191.
slot(v) == IF v = "function" THEN v ELSE "null"

\* The handle of lines 189-191.
wire(n, callbacks) ==
    [kind |-> n.kind, throws |-> n.throws,
     onclick |-> slot(callbacks.onclick),
     onclose |-> slot(callbacks.onclose),
     onshow |-> slot(callbacks.onshow),
     state |-> "open"]

freeId(hs) == CHOOSE i \in HandleIds :
    hs[i].state = "absent" /\ \A j \in HandleIds : hs[j].state = "absent" => i <= j

\* send left before line 160: nothing created.
sendLeft(c, hs, ret, atDismiss) ==
    [cached |-> c, handles |-> hs, ret |-> ret, via |-> "none", atCreate |-> -1,
     handle |-> 0, atDismiss |-> atDismiss]

\* Lines 160-195: the creation, the callbacks and the push.  Assigning
\* onclick to null (typeof null is 'object') is a TypeError.
sendCreate(c, hs, e, callbacks, made, atDismiss) ==
    LET n == created(e, made)
    IN  IF n.type = "object"
        THEN [cached |-> Append(c, freeId(hs)),
              handles |-> [hs EXCEPT ![freeId(hs)] = wire(n, callbacks)],
              ret |-> "undefined", via |-> createBackend(e), atCreate |-> Len(c),
              handle |-> freeId(hs), atDismiss |-> atDismiss]
        ELSE [cached |-> c, handles |-> hs,
              ret |-> IF n.type = "null" THEN "throw" ELSE "undefined",
              via |-> createBackend(e), atCreate |-> Len(c), handle |-> 0,
              atDismiss |-> atDismiss]

\* Lines 155-195, entered with permission granted.
sendGranted(c, hs, e, callbacks, isRemoveAll, made) ==
    LET cleared == IF isRemoveAll THEN removeAll(c, hs, e)
                   ELSE [cached |-> c, handles |-> hs, threw |-> FALSE, atDismiss |-> {}]
    IN  IF cleared.threw
        THEN sendLeft(cleared.cached, cleared.handles, "throw", cleared.atDismiss)
        ELSE sendCreate(cleared.cached, cleared.handles, e, callbacks, made,
                        cleared.atDismiss)

\* send() with the bulk clear moved in front of the permission check.
sendClearsFirst(sup, c, hs, e, callbacks, isRemoveAll, made) ==
    LET cleared == IF isRemoveAll THEN removeAll(c, hs, e)
                   ELSE [cached |-> c, handles |-> hs, threw |-> FALSE, atDismiss |-> {}]
    IN  IF cleared.threw \/ permissionStatus(sup, e) = "throw"
        THEN sendLeft(cleared.cached, cleared.handles, "throw", cleared.atDismiss)
        ELSE IF permissionStatus(sup, e) # PERMISSION_GRANTED
        THEN sendLeft(cleared.cached, cleared.handles, "false", cleared.atDismiss)
        ELSE sendCreate(cleared.cached, cleared.handles, e, callbacks, made,
                        cleared.atDismiss)

\* send() that refuses only a denied permission.
sendUnlessDenied(sup, c, hs, e, callbacks, isRemoveAll, made) ==
    IF permissionStatus(sup, e) = "throw" THEN sendLeft(c, hs, "throw", {})
    ELSE IF permissionStatus(sup, e) = PERMISSION_DENIED THEN sendLeft(c, hs, "false", {})
    ELSE sendGranted(c, hs, e, callbacks, isRemoveAll, made)

\* Lines 146-195.
send(sup, c, hs, e, callbacks, isRemoveAll, made) ==
    IF permissionStatus(sup, e) = "throw" THEN sendLeft(c, hs, "throw", {})
    ELSE IF permissionStatus(sup, e) # PERMISSION_GRANTED THEN sendLeft(c, hs, "false", {})
    ELSE sendGranted(c, hs, e, callbacks, isRemoveAll, made)

----------------------------------------------------------------------------
(* The state after `new Notify()` at line 226, in any environment. *)

Init ==
    /\ env \in Envs
    /\ supported = available("null", env)
    /\ cached = <<>>
    /\ handles = [i \in HandleIds |-> NoHandle]
    /\ pending = "none"
    /\ last = Seen("new", "undefined", "none")

(* The facade's methods. *)

Available ==
    /\ supported' = available(supported, env)
    /\ last' = Seen("available", available(supported, env), "none")
    /\ UNCHANGED <<env, cached, handles, pending>>

PermissionStatus ==
    /\ supported' = available(supported, env)
    /\ last' = Seen("permissionStatus", permissionStatus(supported, env), "none")
    /\ UNCHANGED <<env, cached, handles, pending>>

RequestPermission(callback) ==
    /\ supported' = available(supported, env)
    /\ pending' = IF requestBackend(supported, env) = "none" THEN pending
                  ELSE callable(callback)
    /\ last' = Seen("requestPermission", "undefined", requestBackend(supported, env))
    /\ UNCHANGED <<env, cached, handles>>

\* The notification objects handed out so far.
Created == Cardinality({i \in HandleIds : handles[i].state # "absent"})

\* This send would get an object from its backend and cache it.
Creates(isRemoveAll, made) ==
    /\ permissionStatus(supported, env) = PERMISSION_GRANTED
    /\ isRemoveAll => ~removeAll(cached, handles, env).threw
    /\ created(env, made).type = "object"

Send(callbacks, isRemoveAll, made) ==
    LET r == send(supported, cached, handles, env, callbacks, isRemoveAll, made)
    IN  /\ Creates(isRemoveAll, made) => Created < MaxHandles
        /\ supported' = available(supported, env)
        /\ cached' = r.cached
        /\ handles' = r.handles
        /\ last' = [op |-> "send", ret |-> r.ret, via |-> r.via, clear |-> isRemoveAll,
                    prior |-> Len(cached), atCreate |-> r.atCreate, handle |-> r.handle,
                    atDismiss |-> r.atDismiss]
        /\ UNCHANGED <<env, pending>>

RemoveAll ==
    LET r == removeAll(cached, handles, env)
    IN  /\ cached' = r.cached
        /\ handles' = r.handles
        /\ last' = [Seen("removeAll", IF r.threw THEN "throw" ELSE "undefined", "none")
                       EXCEPT !.atDismiss = r.atDismiss]
        /\ UNCHANGED <<env, supported, pending>>

(* The host environment. *)

\* The environments one change away from e: one backend appears, disappears
\* or changes shape, or the user changes the permission in the browser.
Changes(e) ==
    ({[e EXCEPT !.Notification = v] : v \in NotificationShapes}
     \cup {[e EXCEPT !.webkitNotifications = v] : v \in WebkitShapes}
     \cup {[e EXCEPT !.navMozNotification = v] : v \in BOOLEAN}
     \cup {[e EXCEPT !.winMozNotification = v] : v \in BOOLEAN}
     \cup {[e EXCEPT !.external = v] : v \in ExternalShapes}
     \cup {[e EXCEPT !.permission = v] : v \in Permissions}) \ {e}

EnvChange(e) ==
    /\ env' = e
    /\ last' = Seen("env", "undefined", "none")
    /\ UNCHANGED <<supported, cached, handles, pending>>

\* The backend answers a permission request: it stores the user's decision
\* and calls the callable it was given.
PermissionResolved(result) ==
    /\ pending # "none"
    /\ env' = [env EXCEPT !.permission = result]
    /\ pending' = "none"
    /\ last' = Seen("permissionResolved", result, pending)
    /\ UNCHANGED <<supported, cached, handles>>

\* The user closes an open notification: its close event runs onclose.
UserClose(i) ==
    /\ handles[i].state = "open"
    /\ handles' = [handles EXCEPT ![i].state = "closed"]
    /\ last' = [Seen("closeEvent", handles[i].onclose, "user") EXCEPT !.handle = i]
    /\ UNCHANGED <<env, supported, cached, pending>>

\* The user clicks an open notification: its click event runs onclick.
UserClick(i) ==
    /\ handles[i].state = "open"
    /\ last' = [Seen("clickEvent", handles[i].onclick, "user") EXCEPT !.handle = i]
    /\ UNCHANGED <<env, supported, cached, handles, pending>>

\* The close event of a notification that close() or cancel() dismissed.
CloseEvent(i) ==
    /\ handles[i].state = "dismissed"
    /\ handles' = [handles EXCEPT ![i].state = "closed"]
    /\ last' = [Seen("closeEvent", handles[i].onclose, "dismissal") EXCEPT !.handle = i]
    /\ UNCHANGED <<env, supported, cached, pending>>

----------------------------------------------------------------------------
(* Spec: every environment, with plain notification objects.  The caller   *)
(* passes no callbacks or a mixed callbacks object; a factory returns an   *)
(* object with close(), or null.                                           *)
(***************************************************************************)
NoCallbacks == [onclick |-> "undefined", onclose |-> "undefined", onshow |-> "undefined"]
MixedCallbacks == [onclick |-> "function", onclose |-> "string", onshow |-> "undefined"]

PlainCallbacks == {NoCallbacks, MixedCallbacks}
PlainMades ==
    {[type |-> "object", kind |-> "close", throws |-> FALSE],
     [type |-> "null", kind |-> "none", throws |-> FALSE]}

Next ==
    \/ Available
    \/ PermissionStatus
    \/ RequestPermission("function")
    \/ \E callbacks \in PlainCallbacks, isRemoveAll \in BOOLEAN, made \in PlainMades :
           /\ Creates(isRemoveAll, made) => Created < MaxPlain
           /\ Send(callbacks, isRemoveAll, made)
    \/ RemoveAll
    \/ \E e \in Changes(env) : EnvChange(e)
    \/ \E result \in {PERMISSION_GRANTED, PERMISSION_DENIED} : PermissionResolved(result)

Spec == Init /\ [][Next]_vars

----------------------------------------------------------------------------
(***************************************************************************)
(* SpecCache: the cache and the life of the notification objects, where    *)
(* window.Notification.permission is "granted" and the prefixed factory    *)
(* creates the notifications.  The factory returns objects with close()    *)
(* (throwing or not), cancel() or neither; window.external, without        *)
(* msIsSiteMode, comes and goes; the user closes and clicks notifications; *)
(* close events arrive after a dismissal.                                  *)
(***************************************************************************)
CacheEnvs ==
    [Notification : {"prop"},
     webkitNotifications : {"full"},
     navMozNotification : {FALSE},
     winMozNotification : {FALSE},
     external : {"absent", "plain"},
     permission : {PERMISSION_GRANTED}]

AllCallbacks == [onclick |-> "function", onclose |-> "function", onshow |-> "function"]

CloseCallbacks == {NoCallbacks, AllCallbacks}

CacheMades == {m \in Mades : m.type = "object" /\ (m.throws => m.kind = "close")}

InitCache == Init /\ env \in CacheEnvs

NextCache ==
    \/ PermissionStatus
    \/ \E callbacks \in CloseCallbacks, isRemoveAll \in BOOLEAN, made \in CacheMades :
           Send(callbacks, isRemoveAll, made)
    \/ RemoveAll
    \/ \E e \in Changes(env) \cap CacheEnvs : EnvChange(e)
    \/ \E i \in HandleIds : UserClose(i)
    \/ \E i \in HandleIds : UserClick(i)
    \/ \E i \in HandleIds : CloseEvent(i)

SpecCache == InitCache /\ [][NextCache]_vars

----------------------------------------------------------------------------
(***************************************************************************)
(* SpecWebkit: a browser whose only backend is window.webkitNotifications, *)
(* from the construction on.  The permission starts as "default" and only  *)
(* the answer to a permission request changes it; the factory may gain or  *)
(* lose checkPermission, and window.mozNotification may come and go.       *)
(***************************************************************************)
WebkitOnly(e) ==
    /\ e.webkitNotifications # "absent"
    /\ e.Notification = "absent"
    /\ ~e.navMozNotification
    /\ e.external = "absent"

InitWebkit == Init /\ WebkitOnly(env) /\ env.permission = PERMISSION_DEFAULT

NextWebkit ==
    \/ Available
    \/ PermissionStatus
    \/ \E callback \in {"function", "undefined"} : RequestPermission(callback)
    \/ \E callbacks \in PlainCallbacks, isRemoveAll \in BOOLEAN, made \in PlainMades :
           Send(callbacks, isRemoveAll, made)
    \/ RemoveAll
    \/ \E e \in {x \in Changes(env) : WebkitOnly(x) /\ x.permission = env.permission} :
           EnvChange(e)
    \/ \E result \in {PERMISSION_GRANTED, PERMISSION_DENIED} : PermissionResolved(result)

SpecWebkit == InitWebkit /\ [][NextWebkit]_vars

----------------------------------------------------------------------------
(* The claims. *)

Methods == {"available", "permissionStatus", "requestPermission", "send", "removeAll"}

\* The handles of a cache.
Range(c) == {c[k] : k \in 1..Len(c)}

\* removeAll went over handle i in this step: onclose is detached, and the
\* notification is no longer open when it has close() or cancel().
Dismissed(i) ==
    /\ handles'[i].onclose = "null"
    /\ handles[i].kind \in {"close", "cancel"} => handles'[i].state # "open"

\* Dismissing handle h throws in environment e.
Throwing(h, e) ==
    \/ h.kind \in {"close", "cancel"} /\ h.throws
    \/ h.kind = "none" /\ e.external = "plain"

\* C1: a send made while permissionStatus() returns something other than
\* Granted returns false, reaches no creation, dismisses no handle and
\* leaves the cache as it was, with isRemoveAll true as well.
C1_SendNotGrantedFailsClosed ==
    [][(/\ last'.op = "send"
        /\ permissionStatus(supported, env) \notin {PERMISSION_GRANTED, "throw"})
       => /\ last'.ret = "false"
          /\ last'.via = "none"
          /\ last'.atCreate = -1
          /\ last'.handle = 0
          /\ last'.atDismiss = {}
          /\ cached' = cached
          /\ handles' = handles]_vars

\* C1 happens: a send with isRemoveAll true returned false over a non-empty
\* cache (the permission was taken back after the handle was created).
C1_Witness ==
    /\ last.op = "send"
    /\ last.clear
    /\ last.ret = "false"
    /\ cached # <<>>
    /\ permissionStatus(supported, env) \in {PERMISSION_DENIED, PERMISSION_DEFAULT, ""}

\* C2: the cache is exactly the handles sent since the last removeAll, in
\* creation order: removeAll leaves it empty (and on an empty cache changes
\* nothing and does not throw), send appends the handle it created to the
\* cache (emptied first when isRemoveAll), and nothing else changes it.
C2_CacheIsSendsSinceRemoveAll ==
    [][/\ last'.op = "removeAll" =>
            /\ cached' = <<>>
            /\ cached = <<>> => (last'.ret = "undefined" /\ handles' = handles)
       /\ last'.op = "send" =>
            LET base == IF last'.clear /\ last'.ret # "false" THEN <<>> ELSE cached
            IN  /\ last'.handle # 0 => handles[last'.handle].state = "absent"
                /\ cached' = IF last'.handle # 0 THEN Append(base, last'.handle) ELSE base
       /\ last'.op \notin {"removeAll", "send"} => cached' = cached]_vars

\* C3: when send with isRemoveAll true reaches the creation, the cache is
\* empty there and removeAll went over every handle cached before; then the
\* cache holds exactly the new handle when one was created.  It misses the
\* creation only when the permission is not granted or a dismissal threw.
C3_ClearAllFirstEmptiesBeforeCreate ==
    [][(/\ last'.op = "send"
        /\ last'.clear
        /\ permissionStatus(supported, env) = PERMISSION_GRANTED)
       => IF last'.atCreate = -1
          THEN /\ last'.ret = "throw"
               /\ \E i \in Range(cached) : Throwing(handles[i], env)
          ELSE /\ last'.atCreate = 0
               /\ \A i \in Range(cached) : Dismissed(i)
               /\ last'.handle # 0 => cached' = <<last'.handle>>
               /\ last'.handle = 0 => cached' = <<>>]_vars

\* C3 happens: a send with isRemoveAll true over a cache of one handle or
\* more created a handle, and the cache holds it alone.
C3_Witness ==
    /\ last.op = "send"
    /\ last.clear
    /\ last.prior >= 1
    /\ last.atCreate = 0
    /\ last.handle # 0
    /\ cached = <<last.handle>>
    /\ \E i \in HandleIds : i # last.handle /\ handles[i].state = "dismissed"

\* C4: available() never throws and is memoized: the construction probes
\* the environment (a probe that throws gives false), and from then on
\* this.supported never changes and available() returns it, whatever the
\* environment has become.
C4_AvailableMemoized ==
    [][/\ last.op = "new" =>
            supported = (IF Probe(env) = "true" THEN "true" ELSE "false")
       /\ supported' = supported
       /\ last'.op = "available" =>
            /\ last'.ret = supported
            /\ last'.ret \in {"true", "false"}
            /\ UNCHANGED <<env, cached, handles, pending>>]_vars

\* C4 happens: available() returned false although a backend is there now
\* (none was at the construction).
C4_Witness ==
    /\ last.op = "available"
    /\ last.ret = "false"
    /\ Probe(env) = "true"

\* C5: while available() is false the cache is empty and no permission
\* request is with a backend, and no method throws: permissionStatus and
\* send return false, send creates nothing, requestPermission reaches no
\* backend, removeAll leaves the cache empty, and no callback is called.
C5_UnavailableIsInert ==
    [][supported = "false" =>
        /\ cached = <<>> /\ cached' = <<>>
        /\ pending = "none" /\ pending' = "none"
        /\ handles' = handles
        /\ last'.op # "permissionResolved"
        /\ last'.op \in Methods => last'.ret # "throw"
        /\ last'.op = "available" => last'.ret = "false"
        /\ last'.op = "permissionStatus" => last'.ret = "false"
        /\ last'.op = "send" => (last'.ret = "false" /\ last'.via = "none"
                                   /\ last'.atCreate = -1)
        /\ last'.op = "requestPermission" => last'.via = "none"]_vars

\* C5 happens: requestPermission was called on a facade that found no
\* backend, in an environment that has the prefixed factory by now.
C5_Witness ==
    /\ supported = "false"
    /\ last.op = "requestPermission"
    /\ env.webkitNotifications = "full"

\* C6: available, permissionStatus, requestPermission and send never throw.
C6_NothingThrown ==
    last.op \in {"available", "permissionStatus", "requestPermission", "send"}
        => last.ret # "throw"

\* C7: over a cache of handles that have close() or cancel(), removeAll
\* dismisses every handle whose close() or cancel() does not throw and
\* leaves the cache empty, also when one of those calls throws.
C7_RemoveAllIsTotal ==
    [][(/\ last'.op = "removeAll"
        /\ \A i \in Range(cached) : handles[i].kind \in {"close", "cancel"})
       => /\ cached' = <<>>
          /\ \A i \in Range(cached) : ~handles[i].throws => Dismissed(i)]_vars

\* The backend C8 expects send to create through: the overlay when
\* window.external has msIsSiteMode, else the prefixed factory, else
\* navigator.mozNotification, else the standard constructor.
C8_Backend(e) ==
    IF e.external \in {"undef", "inactive", "active"} THEN "external"
    ELSE IF e.webkitNotifications # "absent" THEN "webkit"
    ELSE IF e.navMozNotification THEN "moz"
    ELSE IF e.Notification # "absent" THEN "standard"
    ELSE "none"

\* C8: with permission granted, a send with isRemoveAll false whose backend
\* hands out an object creates exactly one handle through the backend
\* present, stores each callback that is a function and null for the
\* others, and appends the handle to the cache; through the overlay it
\* creates no handle and leaves the cache as it was.
C8_SendCreatesOneHandle ==
    [][\A callbacks \in PlainCallbacks :
       \A made \in {m \in PlainMades : m.type = "object"} :
         (/\ permissionStatus(supported, env) = PERMISSION_GRANTED
          /\ Send(callbacks, FALSE, made))
         => IF C8_Backend(env) = "external"
            THEN cached' = cached /\ handles' = handles
            ELSE IF C8_Backend(env) = "none" THEN TRUE
            ELSE /\ last'.via = C8_Backend(env)
                 /\ last'.handle # 0
                 /\ \A i \in HandleIds :
                       (handles'[i] # handles[i]) <=> (i = last'.handle)
                 /\ handles[last'.handle].state = "absent"
                 /\ handles'[last'.handle].state = "open"
                 /\ handles'[last'.handle].onclick = slot(callbacks.onclick)
                 /\ handles'[last'.handle].onclose = slot(callbacks.onclose)
                 /\ handles'[last'.handle].onshow = slot(callbacks.onshow)
                 /\ cached' = Append(cached, last'.handle)]_vars

\* C9: removeAll detaches onclose before it calls close() or cancel(): the
\* slot is null at every dismissal, a notification that a dismissal closed
\* has a null onclose, and the close event of a dismissal runs no callback.
C9_OncloseDetachedBeforeDismissal ==
    [][/\ last'.op \in {"removeAll", "send"} => last'.atDismiss \subseteq {"null"}
       /\ \A i \in HandleIds :
             (handles[i].state = "open" /\ handles'[i].state = "dismissed")
                 => handles'[i].onclose = "null"
       /\ (last'.op = "closeEvent" /\ last'.via = "dismissal") => last'.ret = "null"]_vars

\* C9 happens: the close event of a dismissal arrived at a notification
\* that send had given callbacks (onclick is still the caller's function).
C9_Witness ==
    /\ last.op = "closeEvent"
    /\ last.via = "dismissal"
    /\ handles[last.handle].onclick = "function"
    /\ handles[last.handle].state = "closed"

\* C10: with the prefixed factory as the only backend, available() is true,
\* permissionStatus() is the empty status, every send returns false, and no
\* notification is ever created or cached, whatever the user answered to a
\* permission request.
C10_WebkitOnlyNeverSends ==
    /\ supported = "true"
    /\ permissionStatus(supported, env) = ""
    /\ permissionStatus(supported, env) \notin Permissions
    /\ cached = <<>>
    /\ \A i \in HandleIds : handles[i].state = "absent"
    /\ last.op = "available" => last.ret = "true"
    /\ last.op = "permissionStatus" => last.ret = ""
    /\ last.op = "send" => (last.ret = "false" /\ last.via = "none")

\* C10 happens: a send returned false after the user granted the permission
\* in answer to requestPermission.
C10_Witness ==
    /\ last.op = "send"
    /\ last.ret = "false"
    /\ env.permission = PERMISSION_GRANTED
    /\ WebkitOnly(env)

====
